---- MODULE Spec2Model ----
(***************************************************************************)
(* Model of kj/logging.c++ : the description builder (makeDescription) with *)
(* its macro-argument tokenizer, Log::logInternal, the Log::Fault handle    *)
(* and the Log::Context callback chain.                                     *)
(*                                                                          *)
(* Texts are sequences of one-character strings; a C string of length L is  *)
(* the sequence plus a terminator read at index L+1.  Pointers into a text  *)
(* are 1-based indices, so the source's  pos  is an index in 1..L+2.        *)
(***************************************************************************)
EXTENDS Integers, Sequences, FiniteSets, TLC

----------------------------------------------------------------------------
(* Bounds of the checked instances *)

\* longest argument-list text enumerated exhaustively
MaxLen == 4
\* largest number of argument values
MaxArgs == 2

----------------------------------------------------------------------------
(* Characters *)

NUL == "NUL"
Q == "\""
BS == "\\"

\* characters the exhaustive enumeration of argument-list texts draws from
Alphabet == {"a", " ", ",", "(", ")", Q, BS}

\* <ctype.h> isspace in the C locale
isspace(c) == c \in {" ", "\t", "\n", "\r", "\f"}

\* *p for a pointer p into the NUL-terminated text t
At(t, p) == IF p >= 1 /\ p <= Len(t) THEN t[p] ELSE NUL

\* a null char pointer
nullptr == <<"nullptr">>

----------------------------------------------------------------------------
(* uint arithmetic: a 32-bit unsigned value is kept as two 16-bit halves    *)
(* <<hi, lo>> so that ++ and -- wrap exactly as the machine type does.      *)

HalfWord == 65536

UintZero == <<0, 0>>

UintInc(d) ==
  IF d[2] + 1 < HalfWord THEN <<d[1], d[2] + 1>>
  ELSE <<(d[1] + 1) % HalfWord, 0>>

UintDec(d) ==
  IF d[2] > 0 THEN <<d[1], d[2] - 1>>
  ELSE <<(d[1] + HalfWord - 1) % HalfWord, HalfWord - 1>>

----------------------------------------------------------------------------
(* ArrayPtr<const char> into the argument-list text: [b, e) *)

\* a default-constructed ArrayPtr (KJ_STACK_ARRAY element before assignment)
EmptyPtr == [b |-> 0, e |-> 0]

arrayPtr(b, e) == [b |-> b, e |-> e]

PtrSize(p) == p.e - p.b

\* the characters an ArrayPtr into t denotes
PtrText(t, p) == IF p.e > p.b THEN SubSeq(t, p.b, p.e - 1) ELSE <<>>

\* KJ_STACK_ARRAY(ArrayPtr<const char>, argNames, argValues.size(), 8, 64)
StackArray(n) == [i \in 1..n |-> EmptyPtr]

----------------------------------------------------------------------------
(* The tokenizer of makeDescription *)

\* first index >= p of t that is not whitespace:  while (isspace(*p)) ++p;
RECURSIVE SkipSpace(_, _)
SkipSpace(t, p) == IF isspace(At(t, p)) THEN SkipSpace(t, p + 1) ELSE p

\* RecordName without the bounds guard: the slot is written wherever it is
RecordName_Unguarded(names, n, index, b, e) ==
  [i \in (DOMAIN names) \cup {index + 1} |->
     IF i = index + 1 THEN arrayPtr(b, e) ELSE names[i]]

\* argNames[index] = arrayPtr(start, pos - 1), guarded by index < size
RecordName(names, n, index, b, e) ==
  IF index < n THEN [names EXCEPT ![index + 1] = arrayPtr(b, e)] ELSE names

\* the locals of the scan right after their initialisation
ScanInit(t, n) ==
  LET s0 == SkipSpace(t, 1)
  IN  [index |-> 0, start |-> s0, pos |-> s0, depth |-> UintZero,
       quoted |-> FALSE, argNames |-> StackArray(n), looping |-> TRUE]

\* IsEscape without the test of the next character
IsEscape_AnyNext(c, d) == c = BS

\* IsEscape with the backslash case left out
IsEscape_Never(c, d) == FALSE

\* if (c == '\\' && *pos != '\0'), c read in quoted mode, d the next character
IsEscape(c, d) == c = BS /\ d # NUL

\* IsSplit without the depth test
IsSplit_AnyDepth(c, depth) == c = ","

\* else if (c == ',' && depth == 0), c read outside quoted mode
IsSplit(c, depth) == c = "," /\ depth = UintZero

\* one evaluation of the loop condition  (char c = *pos++)  and, when c is
\* not the terminator, of the loop body
ScanStep(t, n, s) ==
  LET c == At(t, s.pos)
      p == s.pos + 1
  IN  IF c = NUL THEN [s EXCEPT !.pos = p, !.looping = FALSE]
      ELSE IF s.quoted THEN
        IF IsEscape(c, At(t, p)) THEN [s EXCEPT !.pos = p + 1]
        ELSE IF c = Q THEN [s EXCEPT !.pos = p, !.quoted = FALSE]
        ELSE [s EXCEPT !.pos = p]
      ELSE
        IF c = "(" THEN [s EXCEPT !.pos = p, !.depth = UintInc(s.depth)]
        ELSE IF c = ")" THEN [s EXCEPT !.pos = p, !.depth = UintDec(s.depth)]
        ELSE IF c = Q THEN [s EXCEPT !.pos = p, !.quoted = TRUE]
        ELSE IF IsSplit(c, s.depth) THEN
          LET q == SkipSpace(t, p)
          IN  [s EXCEPT !.argNames = RecordName(s.argNames, n, s.index, s.start, p - 1),
                        !.index = s.index + 1,
                        !.pos = q,
                        !.start = q]
        ELSE [s EXCEPT !.pos = p]

\* the statements after the loop: record the last segment, count it
ScanLast(t, n, s) ==
  [s EXCEPT !.argNames = RecordName(s.argNames, n, s.index, s.start, s.pos - 1),
            !.index = s.index + 1]

\* the secondary diagnostic passed to logMessage when the count is wrong
ParseDiag(t, n) == [kind |-> "diag", expected |-> n, text |-> t]

\* ScanDiag reporting only a count that is too small
ScanDiag_OnlyFewer(t, n, s) == IF s.index < n THEN <<ParseDiag(t, n)>> ELSE <<>>

\* messages the scan hands to getExceptionCallback().logMessage
ScanDiag(t, n, s) == IF s.index # n THEN <<ParseDiag(t, n)>> ELSE <<>>

RECURSIVE ScanRun(_, _, _)
ScanRun(t, n, s) == IF s.looping THEN ScanRun(t, n, ScanStep(t, n, s)) ELSE s

\* the whole  if (argValues.size() > 0) { ... }  block
Tokenize(t, n) ==
  IF n > 0
  THEN LET s == ScanLast(t, n, ScanRun(t, n, ScanInit(t, n)))
       IN  [argNames |-> s.argNames, index |-> s.index, diag |-> ScanDiag(t, n, s)]
  ELSE [argNames |-> StackArray(n), index |-> 0, diag |-> <<>>]

----------------------------------------------------------------------------
(* The description builder *)

LOG == "LOG"
ASSERTION == "ASSERTION"
SYSCALL == "SYSCALL"
DescriptionStyle == {LOG, ASSERTION, SYSCALL}

expected == <<"e", "x", "p", "e", "c", "t", "e", "d", " ">>
sep == <<" ", "=", " ">>
delim == <<";", " ">>
colon == <<":", " ">>

EIO == 5
EBADF == 9

\* strerror_r: the text of an OS error number
strerror_r(errorNumber) ==
  CASE errorNumber = EBADF ->
         <<"B", "a", "d", " ", "f", "i", "l", "e", " ",
           "d", "e", "s", "c", "r", "i", "p", "t", "o", "r">>
    [] errorNumber = EIO ->
         <<"I", "n", "p", "u", "t", "/", "o", "u", "t", "p", "u", "t", " ",
           "e", "r", "r", "o", "r">>
    [] OTHER -> <<"U", "n", "k", "n", "o", "w", "n", " ", "e", "r", "r", "o", "r">>

\* strchr(code, '='): index of the first '=' of code, 0 for a null result
strchrEq(code) ==
  IF \E i \in 1..Len(code) : code[i] = "="
  THEN CHOOSE i \in 1..Len(code) :
         code[i] = "=" /\ \A j \in 1..(i - 1) : code[j] # "="
  ELSE 0

\* the characters of text t from index p to its end
Suffix(t, p) == IF p <= Len(t) THEN SubSeq(t, p, Len(t)) ELSE <<>>

\* StripAssign without the test of the character after '='
StripAssign_AnyEq(code) ==
  LET equalsPos == strchrEq(code)
  IN  IF equalsPos # 0
      THEN Suffix(code, SkipSpace(code, equalsPos + 1))
      ELSE code

\* the SYSCALL pre-processing of code: strip a leading "foo = "
StripAssign(code) ==
  LET equalsPos == strchrEq(code)
  IN  IF equalsPos # 0 /\ At(code, equalsPos + 1) # "="
      THEN Suffix(code, SkipSpace(code, equalsPos + 1))
      ELSE code

\* code after  if (style == SYSCALL) { ... }
CodeAfterStrip(style, code) == IF style = SYSCALL THEN StripAssign(code) ELSE code

\* StyleAfterDegrade with the degradation left out
StyleAfterDegrade_Never(style, code) == style

\* style after  if (style == ASSERTION && code == nullptr) style = LOG;
StyleAfterDegrade(style, code) ==
  IF style = ASSERTION /\ code = nullptr THEN LOG ELSE style

\* StringPtr codeArray = style == LOG ? nullptr : StringPtr(code);
CodeArray(style, code) == IF style = LOG THEN <<>> ELSE code

\* sysErrorArray: filled in only for SYSCALL
SysErrorArray(style, errorNumber) ==
  IF style = SYSCALL THEN strerror_r(errorNumber) ELSE <<>>

\* HasName without the test for a string literal
HasName_AnyNonEmpty(t, p) == PtrSize(p) > 0

\* if (argNames[i].size() > 0 && argNames[i][0] != '\"')
HasName(t, p) == PtrSize(p) > 0 /\ At(t, p.b) # Q

\* HasDelim that never separates the first argument
HasDelim_NotFirst(style, i) == i > 0

\* if (i > 0 || style != LOG), i counted from 0
HasDelim(style, i) == i > 0 \/ style # LOG

\* the sizing pass: switch (style) for the head
HeadSize(style, codeArray, sysErrorArray) ==
  CASE style = LOG -> 0
    [] style = ASSERTION -> Len(expected) + Len(codeArray)
    [] style = SYSCALL -> Len(codeArray) + Len(colon) + Len(sysErrorArray)

\* ArgSize without the size of the separator after a name
ArgSize_NoSep(style, t, argNames, argValues, i) ==
    (IF HasDelim(style, i) THEN Len(delim) ELSE 0)
  + (IF HasName(t, argNames[i + 1]) THEN PtrSize(argNames[i + 1]) ELSE 0)
  + Len(argValues[i + 1])

\* the sizing pass: what argument i (from 0) adds to totalSize
ArgSize(style, t, argNames, argValues, i) ==
    (IF HasDelim(style, i) THEN Len(delim) ELSE 0)
  + (IF HasName(t, argNames[i + 1]) THEN PtrSize(argNames[i + 1]) + Len(sep) ELSE 0)
  + Len(argValues[i + 1])

\* the fill pass: the separator written before argument i (from 0)
FillDelim(style, i) == IF HasDelim(style, i) THEN delim ELSE <<>>

\* the fill pass: the name part and the value of one argument
FillNamed(t, name, value) ==
  (IF HasName(t, name) THEN PtrText(t, name) \o sep ELSE <<>>) \o value

RECURSIVE SizeArgs(_, _, _, _, _)
SizeArgs(style, t, argNames, argValues, i) ==
  IF i >= Len(argValues) THEN 0
  ELSE ArgSize(style, t, argNames, argValues, i)
       + SizeArgs(style, t, argNames, argValues, i + 1)

\* the fill pass: switch (style) for the head
FillHead(style, codeArray, sysErrorArray) ==
  CASE style = LOG -> <<>>
    [] style = ASSERTION -> expected \o codeArray
    [] style = SYSCALL -> codeArray \o colon \o sysErrorArray

\* the fill pass: what argument i (from 0) appends
FillArg(style, t, argNames, argValues, i) ==
  FillDelim(style, i) \o FillNamed(t, argNames[i + 1], argValues[i + 1])

RECURSIVE FillArgs(_, _, _, _, _)
FillArgs(style, t, argNames, argValues, i) ==
  IF i >= Len(argValues) THEN <<>>
  ELSE FillArg(style, t, argNames, argValues, i)
       \o FillArgs(style, t, argNames, argValues, i + 1)

\* everything of makeDescription after the tokenizer block
BuildDescription(style0, code0, errorNumber, t, argNames, argValues) ==
  LET code == CodeAfterStrip(style0, code0)
      style == StyleAfterDegrade(style0, code)
      codeArray == CodeArray(style, code)
      sysErrorArray == SysErrorArray(style, errorNumber)
  IN  [totalSize |-> HeadSize(style, codeArray, sysErrorArray)
                     + SizeArgs(style, t, argNames, argValues, 0),
       result |-> FillHead(style, codeArray, sysErrorArray)
                  \o FillArgs(style, t, argNames, argValues, 0)]

\* makeDescription(style, code, errorNumber, macroArgs, argValues)
makeDescription(style, code, errorNumber, macroArgs, argValues) ==
  LET tk == Tokenize(macroArgs, Len(argValues))
      b == BuildDescription(style, code, errorNumber, macroArgs, tk.argNames, argValues)
  IN  [result |-> b.result, totalSize |-> b.totalSize,
       argNames |-> tk.argNames, index |-> tk.index, diag |-> tk.diag]

----------------------------------------------------------------------------
(* Inputs of the checked instances *)

\* all texts over Alphabet of length at most k
TextsUpTo(k) == UNION {[1..m -> Alphabet] : m \in 0..k}

ExNested == <<"f", "(", "a", ",", " ", "b", ")", ",", " ", "c">>
ExQuoted == <<Q, "a", ",", "b", Q, ",", " ", "c">>
ExEscaped == <<Q, "a", BS, Q, "b", Q, ",", " ", "c">>
ExXY == <<"x", ",", " ", "y">>
ExX == <<"x">>
ExSpaced == <<" ", "a", " ", ",", " ", "b", " ">>
ExThree == <<"a", ",", "b", ",", "c">>

\* argument-list texts longer than MaxLen that are checked as well
Examples == {ExNested, ExQuoted, ExEscaped, ExXY, ExX, ExSpaced, ExThree}

Texts == TextsUpTo(MaxLen) \cup Examples

Digits == <<"1", "2", "3", "4", "5", "6", "7", "8", "9">>

\* n stringified argument values: "1", "2", ...
ValuesN(n) == [i \in 1..n |-> <<Digits[i]>>]

ValueLists == {ValuesN(n) : n \in 0..MaxArgs}

----------------------------------------------------------------------------
(* State *)

VARIABLES
  style,        \* makeDescription's style argument
  code,         \* its code argument (nullptr or a text)
  errno,        \* the C library's errno
  errorNumber,  \* its errorNumber argument
  macroArgs,    \* its macroArgs argument
  argValues,    \* its argValues argument
  pc,           \* position of the running call
  scan,         \* locals of the tokenizer
  totalSize,    \* result of the sizing pass
  result,       \* the String returned by makeDescription
  head,         \* what getExceptionCallback() returns: the active chain head
  next,         \* Context::next of every constructed Context
  context,      \* lifetime of every Context
  exception,    \* Fault::exception of every Fault handle
  fault,        \* lifetime of every Fault handle
  calls,        \* every callback invocation made so far, in order
  proc          \* whether the process still runs

descVars == <<style, code, errno, errorNumber, macroArgs, argValues, pc, scan, totalSize, result>>
lifeVars == <<head, next, context, exception, fault, proc>>
vars == <<descVars, lifeVars, calls>>

\* the root callback, below every Context
ROOT == 0

----------------------------------------------------------------------------
(* The callback chain *)

\* Context::addTo(exception): the Context wraps its annotation around it
addTo(c, e) == [e EXCEPT !.context = Append(e.context, c)]

\* ForwardArg of a Context that marks the log texts passing through it
ForwardArg_Indenting(cb, m, a) ==
  IF m = "logMessage" THEN [a EXCEPT !.kind = "indented"] ELSE addTo(cb, a)

\* ForwardArg of a Context that adds no annotation
ForwardArg_NoAnnotation(cb, m, a) == a

\* what Context cb hands to its successor when it receives a through m:
\* the exception with its annotation added, a log text as it is
ForwardArg(cb, m, a) == IF m = "logMessage" THEN a ELSE addTo(cb, a)

\* the invocations made when callback cb receives method m with argument a
RECURSIVE Dispatch(_, _, _, _)
Dispatch(nx, cb, m, a) ==
  IF cb = ROOT THEN <<[callee |-> ROOT, method |-> m, arg |-> a]>>
  ELSE <<[callee |-> cb, method |-> m, arg |-> a]>>
       \o Dispatch(nx, nx[cb], m, ForwardArg(cb, m, a))

\* getExceptionCallback().logMessage(...) for each message of msgs
RECURSIVE LogAll(_, _, _)
LogAll(nx, cb, msgs) ==
  IF msgs = <<>> THEN <<>>
  ELSE Dispatch(nx, cb, "logMessage", Head(msgs)) \o LogAll(nx, cb, Tail(msgs))

----------------------------------------------------------------------------
(* Bounds of the Fault / Context instances *)

\* number of Context objects
MaxContexts == 3
\* number of Fault handles
MaxFaults == 1

Contexts == 1..MaxContexts
Faults == 1..MaxFaults

\* a null Exception pointer; a pointer to e is <<e>>
NoException == <<>>

\* the chain and the handles before anything is constructed
LifeInit ==
  /\ head = ROOT
  /\ next = [c \in Contexts |-> ROOT]
  /\ context = [c \in Contexts |-> "unborn"]
  /\ exception = [f \in Faults |-> NoException]
  /\ fault = [f \in Faults |-> "unborn"]
  /\ proc = "running"

\* no call of makeDescription in progress
DescIdle ==
  /\ style = LOG
  /\ code = nullptr
  /\ errno = 0
  /\ errorNumber = 0
  /\ macroArgs = <<>>
  /\ argValues = <<>>
  /\ pc = "idle"
  /\ scan = ScanInit(<<>>, 0)
  /\ totalSize = 0
  /\ result = <<>>

----------------------------------------------------------------------------
(* Log::logInternal, statement by statement *)

\* Log::Severity, by its numeric value
Severity == 0..4

SEVERITY_STRINGS == <<"info", "warning", "error", "fatal", "debug">>

\* KJ_STRINGIFY(Log::Severity)
KJ_STRINGIFY(severity) == SEVERITY_STRINGS[severity + 1]

\* the line logInternal hands to logMessage
LogLine(severity, desc) ==
  [kind |-> "line", severity |-> KJ_STRINGIFY(severity), text |-> desc]

InitLog ==
  /\ LifeInit
  /\ calls = <<>>
  /\ style = LOG
  /\ code = nullptr
  /\ errno = 0
  /\ errorNumber = 0
  /\ macroArgs \in Texts
  /\ argValues \in ValueLists
  /\ pc = "call"
  /\ scan = ScanInit(macroArgs, Len(argValues))
  /\ totalSize = 0
  /\ result = <<>>

\* if (argValues.size() > 0) taken: the scan's locals are initialised
ScanBegin ==
  /\ pc = "call"
  /\ Len(argValues) > 0
  /\ scan' = ScanInit(macroArgs, Len(argValues))
  /\ pc' = "scan"
  /\ UNCHANGED <<style, code, errno, errorNumber, macroArgs, argValues, totalSize, result,
                 lifeVars, calls>>

\* if (argValues.size() > 0) not taken
ScanSkip ==
  /\ pc = "call"
  /\ Len(argValues) = 0
  /\ pc' = "build"
  /\ UNCHANGED <<style, code, errno, errorNumber, macroArgs, argValues, scan, totalSize, result,
                 lifeVars, calls>>

\* one iteration of  while (char c = *pos++)
ScanLoop ==
  /\ pc = "scan"
  /\ scan.looping
  /\ scan' = ScanStep(macroArgs, Len(argValues), scan)
  /\ UNCHANGED <<style, code, errno, errorNumber, macroArgs, argValues, pc, totalSize, result,
                 lifeVars, calls>>

\* after the loop: last segment, count check, diagnostic
ScanEnd ==
  /\ pc = "scan"
  /\ ~scan.looping
  /\ scan' = ScanLast(macroArgs, Len(argValues), scan)
  /\ calls' = calls \o LogAll(next, head, ScanDiag(macroArgs, Len(argValues), scan'))
  /\ pc' = "build"
  /\ UNCHANGED <<style, code, errno, errorNumber, macroArgs, argValues, totalSize, result,
                 lifeVars>>

\* the rest of makeDescription: strip, degrade, size, fill, return
Build ==
  /\ pc = "build"
  /\ LET b == BuildDescription(style, code, errorNumber, macroArgs,
                               scan.argNames, argValues)
     IN  /\ totalSize' = b.totalSize
         /\ result' = b.result
  /\ pc' = "built"
  /\ UNCHANGED <<style, code, errno, errorNumber, macroArgs, argValues, scan, lifeVars, calls>>

\* LogDeliver with the log line delivered ahead of the scan's messages
LogDeliver_LineFirst ==
  /\ pc = "built"
  /\ \E severity \in Severity :
       calls' = Dispatch(next, head, "logMessage", LogLine(severity, result)) \o calls
  /\ pc' = "done"
  /\ UNCHANGED <<style, code, errno, errorNumber, macroArgs, argValues, scan, totalSize, result,
                 lifeVars>>

\* getExceptionCallback().logMessage(str(severity, ": ", file, ...))
LogDeliver ==
  /\ pc = "built"
  /\ \E severity \in Severity :
       calls' = calls \o Dispatch(next, head, "logMessage", LogLine(severity, result))
  /\ pc' = "done"
  /\ UNCHANGED <<style, code, errno, errorNumber, macroArgs, argValues, scan, totalSize, result,
                 lifeVars>>

NextLog == ScanBegin \/ ScanSkip \/ ScanLoop \/ ScanEnd \/ Build \/ LogDeliver

SpecLog == InitLog /\ [][NextLog]_vars

----------------------------------------------------------------------------
(* makeDescription as one call, for every style *)

\* longest argument-list text enumerated for the whole-call instances
MaxDescLen == 2

CodeGt == <<"x", " ", ">", " ", "0">>
CodeRead == <<"n", " ", "=", " ", "r", "e", "a", "d", "(", "f", "d", ",", " ",
              "b", "u", "f", ",", " ", "l", "e", "n", ")">>
CodeEqEq == <<"a", " ", "=", "=", " ", "b">>
CodeNested == <<"f", "(", "k", "=", "1", ")">>
CodeEqThenAssign == <<"a", "=", "=", "b", " ", "=", " ", "c">>
CodeLe == <<"a", " ", "<", "=", " ", "b">>
CodeTight == <<"n", "=", "g", "(", ")">>
CodeCall == <<"g", "(", ")">>
CodeEnd == <<"n", "=">>

\* condition texts the callers pass
Codes == {CodeGt, CodeRead, CodeEqEq, CodeNested, CodeEqThenAssign, CodeLe,
          CodeTight, CodeCall, CodeEnd}

DescTexts == TextsUpTo(MaxDescLen) \cup Examples

DescValueLists == ValueLists \cup {<< <<"5">> >>, << <<>> >>}

InitDesc ==
  /\ LifeInit
  /\ calls = <<>>
  /\ style \in DescriptionStyle
  /\ code \in (IF style = LOG THEN {nullptr}
               ELSE IF style = ASSERTION THEN Codes \cup {nullptr}
               ELSE Codes)
  /\ errno = 0
  /\ errorNumber \in (IF style = SYSCALL THEN {EIO, EBADF} ELSE {0})
  /\ macroArgs \in DescTexts
  /\ argValues \in DescValueLists
  /\ pc = "call"
  /\ scan = ScanInit(macroArgs, Len(argValues))
  /\ totalSize = 0
  /\ result = <<>>

\* one whole call of makeDescription
Describe ==
  /\ pc = "call"
  /\ LET d == makeDescription(style, code, errorNumber, macroArgs, argValues)
     IN  /\ totalSize' = d.totalSize
         /\ result' = d.result
         /\ scan' = [scan EXCEPT !.argNames = d.argNames, !.index = d.index,
                                 !.looping = FALSE]
         /\ calls' = calls \o LogAll(next, head, d.diag)
  /\ pc' = "done"
  /\ UNCHANGED <<style, code, errno, errorNumber, macroArgs, argValues, lifeVars>>

NextDesc == Describe

SpecDesc == InitDesc /\ [][NextDesc]_vars

----------------------------------------------------------------------------
(* Log::Fault and Log::Context *)

OS_ERROR == "OS_ERROR"
PRECONDITION == "PRECONDITION"

\* the calls of Fault::init that are checked: a failed system call without
\* arguments, an assertion whose text does not parse into the number of
\* values
FaultInputs ==
  { [nature |-> OS_ERROR, errorNumber |-> EBADF, condition |-> CodeRead,
     macroArgs |-> <<>>, argValues |-> <<>>],
    [nature |-> PRECONDITION, errorNumber |-> 0, condition |-> nullptr,
     macroArgs |-> ExXY, argValues |-> << <<"1">> >>] }

\* new Exception(nature, Exception::Durability::PERMANENT, file, line, description)
NewException(f, nature, description) ==
  [id |-> f, nature |-> nature, durability |-> "PERMANENT",
   description |-> description, context |-> <<>>]

\* what *exception reads when exception is null: an indeterminate value
Garbage == NewException(0, "indeterminate", <<>>)

\* how a callback invoked by this code can complete
SinkOutcomes == {"return", "throw"}

\* ScopedRegistration's constructor: the callback that becomes the active head
Registered(c) == c

\* ScopedRegistration's destructor: the head that is active again
Restored(nx, c) == nx[c]

\* Context::Context() without the capture of the active head in next
ConstructContext_NoCapture(c) ==
  /\ proc = "running"
  /\ context[c] = "unborn"
  /\ \A b \in Contexts : b < c => context[b] # "unborn"
  /\ head' = Registered(c)
  /\ context' = [context EXCEPT ![c] = "live"]
  /\ UNCHANGED <<descVars, next, exception, fault, proc, calls>>

\* Context::Context(): next(getExceptionCallback()), registration(*this)
ConstructContext(c) ==
  /\ proc = "running"
  /\ context[c] = "unborn"
  /\ \A b \in Contexts : b < c => context[b] # "unborn"
  /\ next' = [next EXCEPT ![c] = head]
  /\ head' = Registered(c)
  /\ context' = [context EXCEPT ![c] = "live"]
  /\ UNCHANGED <<descVars, exception, fault, proc, calls>>

\* Context::~Context() of the innermost Context
DestroyContext(c) ==
  /\ proc = "running"
  /\ context[c] = "live"
  /\ head = c
  /\ head' = Restored(next, c)
  /\ context' = [context EXCEPT ![c] = "dead"]
  /\ UNCHANGED <<descVars, next, exception, fault, proc, calls>>

\* Fault::init: build the description, allocate the exception
FaultInit(f) ==
  /\ proc = "running"
  /\ fault[f] = "unborn"
  /\ \A g \in Faults : g < f => fault[g] # "unborn"
  /\ \E in \in FaultInputs :
       LET d == makeDescription(IF in.nature = OS_ERROR THEN SYSCALL ELSE ASSERTION,
                                in.condition, in.errorNumber, in.macroArgs,
                                in.argValues)
       IN  /\ calls' = calls \o LogAll(next, head, d.diag)
           /\ exception' = [exception EXCEPT
                             ![f] = <<NewException(f, in.nature, d.result)>>]
  /\ fault' = [fault EXCEPT ![f] = "live"]
  /\ UNCHANGED <<descVars, head, next, context, proc>>

\* the owner moves the exception out of the handle
Defuse(f) ==
  /\ proc = "running"
  /\ fault[f] = "live"
  /\ exception[f] # NoException
  /\ exception' = [exception EXCEPT ![f] = NoException]
  /\ UNCHANGED <<descVars, head, next, context, fault, proc, calls>>

\* ~Fault forwarding whatever the handle's pointer designates
FaultReport_Unchecked(nx, hd, e) ==
  Dispatch(nx, hd, "onRecoverableException", IF e = NoException THEN Garbage ELSE e[1])

\* the invocations made by ~Fault for a handle whose pointer is e
FaultReport(nx, hd, e) ==
  IF e # NoException THEN Dispatch(nx, hd, "onRecoverableException", e[1]) ELSE <<>>

\* Fault::~Fault()
DestroyFault(f) ==
  /\ proc = "running"
  /\ fault[f] \in {"live", "unwinding", "returned"}
  /\ calls' = calls \o FaultReport(next, head, exception[f])
  /\ fault' = [fault EXCEPT ![f] = "destroyed"]
  /\ UNCHANGED <<descVars, head, next, context, exception, proc>>

\* fatal() leaving the pointer as it was
FatalPointer_Kept(e) == e

\* the handle's pointer after  delete exception; exception = nullptr;
FatalPointer(e) == NoException

\* fatal() without the final abort()
FatalExit_NoAbort(outcome) == IF outcome = "throw" THEN "unwinding" ELSE "returned"

\* how fatal() ends once onFatalException has completed: abort() when the
\* callback returned, propagation of its exception otherwise
FatalExit(outcome) == IF outcome = "throw" THEN "unwinding" ELSE "aborted"

\* the tail of fatal(): forward the copy, then end
FatalForward(f, copy) ==
  /\ calls' = calls \o Dispatch(next, head, "onFatalException", copy)
  /\ \E outcome \in SinkOutcomes :
       LET exit == FatalExit(outcome)
       IN  /\ proc' = IF exit = "aborted" THEN "aborted" ELSE proc
           /\ fault' = [fault EXCEPT ![f] = IF exit = "aborted" THEN @ ELSE exit]

\* Fault::fatal() on a handle that holds its exception
Fatal(f) ==
  /\ proc = "running"
  /\ fault[f] \in {"live", "returned"}
  /\ exception[f] # NoException
  /\ exception' = [exception EXCEPT ![f] = FatalPointer(exception[f])]
  /\ FatalForward(f, exception[f][1])
  /\ UNCHANGED <<descVars, head, next, context>>

\* Fault::fatal() on a handle whose pointer is null: mv(*exception) reads
\* through a null pointer, so the call either faults or goes on with an
\* indeterminate value
FatalOnEmpty(f) ==
  /\ proc = "running"
  /\ fault[f] \in {"live", "returned"}
  /\ exception[f] = NoException
  /\ \/ /\ proc' = "crashed"
        /\ UNCHANGED <<fault, calls>>
     \/ FatalForward(f, Garbage)
  /\ UNCHANGED <<descVars, head, next, context, exception>>

Init ==
  /\ DescIdle
  /\ LifeInit
  /\ calls = <<>>

Next ==
  \/ \E c \in Contexts : ConstructContext(c)
  \/ \E c \in Contexts : DestroyContext(c)
  \/ \E f \in Faults : FaultInit(f)
  \/ \E f \in Faults : Defuse(f)
  \/ \E f \in Faults : DestroyFault(f)
  \/ \E f \in Faults : Fatal(f)
  \/ \E f \in Faults : FatalOnEmpty(f)

Spec == Init /\ [][Next]_vars

----------------------------------------------------------------------------
(* Log::logInternal under nested Contexts *)

\* number of calls of logInternal
MaxLogs == 3

\* the calls of logInternal that are checked: a text that parses into the
\* number of values, and one that does not
LogInputs ==
  { [severity |-> 1, macroArgs |-> ExX, argValues |-> ValuesN(1)],
    [severity |-> 2, macroArgs |-> ExXY, argValues |-> ValuesN(1)] }

\* the invocations made by one call of Log::logInternal
logInternal(nx, hd, severity, t, values) ==
  LET d == makeDescription(LOG, nullptr, 0, t, values)
  IN  LogAll(nx, hd, d.diag)
      \o Dispatch(nx, hd, "logMessage", LogLine(severity, d.result))

\* log lines the root callback has received
RootLines(cs) ==
  {k \in 1..Len(cs) :
     cs[k].callee = ROOT /\ cs[k].method = "logMessage" /\ cs[k].arg.kind = "line"}

\* Log::logInternal as one call
LogCall ==
  /\ proc = "running"
  /\ Cardinality(RootLines(calls)) < MaxLogs
  /\ \E in \in LogInputs :
       calls' = calls \o logInternal(next, head, in.severity, in.macroArgs, in.argValues)
  /\ UNCHANGED <<descVars, lifeVars>>

InitChain == Init

NextChain ==
  \/ \E c \in Contexts : ConstructContext(c)
  \/ \E c \in Contexts : DestroyContext(c)
  \/ LogCall

SpecChain == InitChain /\ [][NextChain]_vars

----------------------------------------------------------------------------
(* Log::getOsErrorNumber *)

\* largest value of errno enumerated
MaxErrno == 133

\* <errno.h> EINTR
EINTR == 4

\* getOsErrorNumber returning errno as it is
getOsErrorNumber_NoSentinel(e) == e

\* int result = errno; return result == EINTR ? -1 : result;
getOsErrorNumber(e) == IF e = EINTR THEN -1 ELSE e

InitErrno ==
  /\ LifeInit
  /\ calls = <<>>
  /\ style = LOG
  /\ code = nullptr
  /\ errno \in 0..MaxErrno
  /\ errorNumber = 0
  /\ macroArgs = <<>>
  /\ argValues = <<>>
  /\ pc = "call"
  /\ scan = ScanInit(<<>>, 0)
  /\ totalSize = 0
  /\ result = <<>>

\* one call of Log::getOsErrorNumber; the caller keeps the value returned
GetOsErrorNumber ==
  /\ pc = "call"
  /\ errorNumber' = getOsErrorNumber(errno)
  /\ pc' = "done"
  /\ UNCHANGED <<style, code, errno, macroArgs, argValues, scan, totalSize, result,
                 lifeVars, calls>>

NextErrno == GetOsErrorNumber

SpecErrno == InitErrno /\ [][NextErrno]_vars

----------------------------------------------------------------------------
(* Reference notions used to state the properties of the tokenizer *)

\* the tokenizer block of the running call has been executed
Scanned == pc \in {"build", "built", "done"}

\* the text of the name recorded for argument i (from 1)
NameText(i) == PtrText(macroArgs, scan.argNames[i])

RECURSIVE TrimLeft(_)
TrimLeft(x) == IF x # <<>> /\ isspace(Head(x)) THEN TrimLeft(Tail(x)) ELSE x

RECURSIVE TrimRight(_)
TrimRight(x) ==
  IF x # <<>> /\ isspace(x[Len(x)]) THEN TrimRight(SubSeq(x, 1, Len(x) - 1)) ELSE x

Trim(x) == TrimRight(TrimLeft(x))

\* t contains no parenthesis and no quote
Plain(t) == \A i \in 1..Len(t) : t[i] \notin {"(", ")", Q}

CommaIdx(t) == {i \in 1..Len(t) : t[i] = ","}

\* index of the k-th comma of t; 0 for k = 0, Len(t)+1 past the last one
KthComma(t, k) ==
  IF k = 0 THEN 0
  ELSE IF k > Cardinality(CommaIdx(t)) THEN Len(t) + 1
  ELSE CHOOSE j \in CommaIdx(t) : Cardinality({x \in CommaIdx(t) : x <= j}) = k

\* number of comma-separated expressions of a plain text
NumExprs(t) == Cardinality(CommaIdx(t)) + 1

\* the i-th comma-separated expression of a plain text, untrimmed
Expr(t, i) ==
  LET b == KthComma(t, i - 1) + 1
      e == KthComma(t, i) - 1
  IN  IF e >= b THEN SubSeq(t, b, e) ELSE <<>>

\* quote mode, pending escape and parenthesis balance after the first k
\* characters of t, read left to right
RECURSIVE RefFold(_, _)
RefFold(t, k) ==
  IF k = 0 THEN [q |-> FALSE, esc |-> FALSE, bal |-> 0]
  ELSE LET r == RefFold(t, k - 1)
           c == t[k]
       IN  IF r.esc THEN [r EXCEPT !.esc = FALSE]
           ELSE IF r.q THEN
             IF c = BS THEN [r EXCEPT !.esc = TRUE]
             ELSE IF c = Q THEN [r EXCEPT !.q = FALSE]
             ELSE r
           ELSE
             IF c = "(" THEN [r EXCEPT !.bal = r.bal + 1]
             ELSE IF c = ")" THEN [r EXCEPT !.bal = r.bal - 1]
             ELSE IF c = Q THEN [r EXCEPT !.q = TRUE]
             ELSE r

\* commas of t read outside quoted text with as many '(' as ')' before them
TopCommas(t) ==
  {i \in CommaIdx(t) : LET r == RefFold(t, i - 1)
                       IN  ~r.q /\ ~r.esc /\ r.bal = 0}

\* number of segments of t: one more than its top-level commas
RefSegments(t) == Cardinality(TopCommas(t)) + 1

\* the scan is about to read a character of the text
Reading == pc = "scan" /\ scan.looping /\ At(macroArgs, scan.pos) # NUL

\* the character the scan is about to read
Cur == At(macroArgs, scan.pos)

----------------------------------------------------------------------------
(* C1 *)

\* C1 (as claimed): for a text of N >= 1 comma-separated expressions without
\* parentheses and quotes, scanned for N values, exactly N names are recorded
\* and name i is expression i with leading and trailing whitespace removed.
C1_TrimmedBothSides ==
  (Scanned /\ Len(argValues) >= 1 /\ Plain(macroArgs)
     /\ NumExprs(macroArgs) = Len(argValues))
  => /\ scan.index = Len(argValues)
     /\ \A i \in 1..Len(argValues) : NameText(i) = Trim(Expr(macroArgs, i))

----------------------------------------------------------------------------
(* C2 *)

ExNestedNames == << <<"f", "(", "a", ",", " ", "b", ")">>, <<"c">> >>

\* C2: a comma read by the scan splits exactly when the scanner is outside
\* quoted mode and as many '(' as ')' were read outside quoted mode so far;
\* f(a, b), c with 2 values yields the names f(a, b) and c.
C2_SplitOnlyAtTopLevel ==
  /\ [][(Reading /\ Cur = ",")
          => LET r == RefFold(macroArgs, scan.pos - 1)
             IN  /\ r.q = scan.quoted
                 /\ (scan'.index = scan.index + 1) <=> (r.bal = 0 /\ ~r.q)
                 /\ (scan'.index # scan.index + 1) => scan'.index = scan.index]_vars
  /\ [][(Reading /\ Cur # ",") => scan'.index = scan.index]_vars
  /\ []((Scanned /\ macroArgs = ExNested /\ Len(argValues) = 2)
          => /\ scan.index = 2
             /\ <<NameText(1), NameText(2)>> = ExNestedNames)

\* the scan of f(a, b), c for 2 values has finished with both names recorded
C2_Witness ==
  /\ pc = "done"
  /\ macroArgs = ExNested
  /\ Len(argValues) = 2
  /\ scan.index = 2
  /\ NameText(1) = ExNestedNames[1]

----------------------------------------------------------------------------
(* C3 *)

ExQuotedNames == << <<Q, "a", ",", "b", Q>>, <<"c">> >>

\* C3: quoted mode starts at a double quote read outside quoted mode and
\* ends only at a double quote read in quoted mode; a backslash read in
\* quoted mode takes the next character with it; nothing read in quoted mode
\* splits or changes the depth; "a,b", c with 2 values yields "a,b" and c and
\* "a\"b", c yields 2 names.
C3_QuotedMode ==
  /\ [][Reading
          => /\ (~scan.quoted /\ Cur = Q) => scan'.quoted
             /\ (~scan.quoted /\ scan'.quoted) => Cur = Q
             /\ (scan.quoted /\ ~scan'.quoted) => Cur = Q
             /\ (scan.quoted /\ Cur = Q) => ~scan'.quoted
             /\ (scan.quoted /\ Cur = BS /\ At(macroArgs, scan.pos + 1) # NUL)
                  => (scan'.quoted /\ scan'.pos = scan.pos + 2)
             /\ scan.quoted
                  => (scan'.depth = scan.depth /\ scan'.index = scan.index
                      /\ scan'.start = scan.start)]_vars
  /\ []((Scanned /\ macroArgs = ExQuoted /\ Len(argValues) = 2)
          => /\ scan.index = 2
             /\ <<NameText(1), NameText(2)>> = ExQuotedNames)
  /\ []((Scanned /\ macroArgs = ExEscaped /\ Len(argValues) = 2)
          => /\ scan.index = 2
             /\ NameText(1) = <<Q, "a", BS, Q, "b", Q>>
             /\ NameText(2) = <<"c">>)

\* the scan of "a\"b", c for 2 values has finished with 2 names
C3_Witness ==
  /\ pc = "done"
  /\ macroArgs = ExEscaped
  /\ Len(argValues) = 2
  /\ scan.index = 2
  /\ NameText(2) = <<"c">>

----------------------------------------------------------------------------
(* Reference notions used to state the properties of the builder *)

\* the running call of makeDescription has returned
Described == pc = "done"

\* the style the builder works with after its pre-processing
EffStyle == StyleAfterDegrade(style, CodeAfterStrip(style, code))

\* sequence x starts with sequence y
StartsWith(x, y) == Len(x) >= Len(y) /\ SubSeq(x, 1, Len(y)) = y

TextXY12 == <<"x", " ", "=", " ", "1", ";", " ", "y", " ", "=", " ", "2">>
TextExpectedX5 == <<"e", "x", "p", "e", "c", "t", "e", "d", " ", "x", " ", ">", " ", "0",
                    ";", " ", "x", " ", "=", " ", "5">>
TextX5 == <<"x", " ", "=", " ", "5">>
TextReadHead == <<"r", "e", "a", "d", "(", "f", "d", ",", " ", "b", "u", "f", ",", " ",
                  "l", "e", "n", ")", ":", " ">>

----------------------------------------------------------------------------
(* C4 *)

\* the head the description starts with, by style
HeadOf(st, cd, en) ==
  CASE st = LOG -> <<>>
    [] st = ASSERTION -> <<"e", "x", "p", "e", "c", "t", "e", "d", " ">> \o cd
    [] st = SYSCALL -> CodeAfterStrip(st, cd) \o <<":", " ">> \o strerror_r(en)

\* arguments i.. of the running call as rendered by the builder, each
\* preceded by "; " except the first one of a description without head
RECURSIVE JoinedFrom(_, _)
JoinedFrom(i, headless) ==
  IF i > Len(argValues) THEN <<>>
  ELSE (IF i = 1 /\ headless THEN <<>> ELSE <<";", " ">>)
       \o FillNamed(macroArgs, scan.argNames[i], argValues[i])
       \o JoinedFrom(i + 1, headless)

\* C4: the description is the style's head followed by the rendered
\* arguments in order, each preceded by "; " except the first argument in
\* LOG style; LOG x, y with 1, 2 gives x = 1; y = 2 and ASSERTION x > 0 with
\* x = 5 gives expected x > 0; x = 5.
C4_HeadAndSeparators ==
  /\ (Described /\ ~(style = ASSERTION /\ code = nullptr))
       => result = HeadOf(style, code, errorNumber) \o JoinedFrom(1, style = LOG)
  /\ (Described /\ style = LOG /\ macroArgs = ExXY /\ argValues = ValuesN(2))
       => result = TextXY12
  /\ (Described /\ style = ASSERTION /\ code = CodeGt /\ macroArgs = ExX
        /\ argValues = << <<"5">> >>)
       => result = TextExpectedX5

\* ASSERTION x > 0 with x = 5 has been described
C4_Witness ==
  /\ Described
  /\ style = ASSERTION
  /\ code = CodeGt
  /\ macroArgs = ExX
  /\ argValues = << <<"5">> >>
  /\ result = TextExpectedX5

----------------------------------------------------------------------------
(* C5 *)

\* argument i rendered as the rule says: name = value for a non-empty name
\* that does not start with a double quote, the value alone otherwise
RenderedArg(i) ==
  LET nm == NameText(i)
  IN  IF nm # <<>> /\ nm[1] # Q
      THEN nm \o <<" ", "=", " ">> \o argValues[i]
      ELSE argValues[i]

RECURSIVE RenderedFrom(_)
RenderedFrom(i) ==
  IF i > Len(argValues) THEN <<>>
  ELSE FillDelim(EffStyle, i - 1) \o RenderedArg(i) \o RenderedFrom(i + 1)

\* C5: every argument appears in the description as name = value exactly
\* when its recorded name is non-empty and does not start with a double
\* quote, and as the value alone otherwise.
C5_NameRendering ==
  Described
  => result = FillHead(EffStyle, CodeArray(EffStyle, CodeAfterStrip(style, code)),
                       SysErrorArray(EffStyle, errorNumber))
              \o RenderedFrom(1)

\* "a,b", c with 2 values has been described: one literal name, one real name
C5_Witness ==
  /\ Described
  /\ style = LOG
  /\ macroArgs = ExQuoted
  /\ argValues = ValuesN(2)
  /\ result = <<"1", ";", " ", "c", " ", "=", " ", "2">>

----------------------------------------------------------------------------
(* C6 *)

\* text x without its leading whitespace
DropSpace(x) == TrimLeft(x)

\* index i of cd holds a '=' outside parentheses and quotes that is not part
\* of "=="
TopLevelAssign(cd, i) ==
  /\ cd[i] = "="
  /\ At(cd, i + 1) # "="
  /\ At(cd, i - 1) # "="
  /\ RefFold(cd, i - 1).bal = 0
  /\ ~RefFold(cd, i - 1).q

\* cd stripped up to and including its first top-level '=' not part of "=="
StripTopLevel(cd) ==
  LET I == {i \in 1..Len(cd) : TopLevelAssign(cd, i)}
  IN  IF I = {} THEN cd
      ELSE LET i == CHOOSE x \in I : \A y \in I : x <= y
           IN  DropSpace(Suffix(cd, i + 1))

\* cd stripped up to and including its first '=', unless that '=' is
\* directly followed by another '='
StripFirstEq(cd) ==
  LET I == {i \in 1..Len(cd) : cd[i] = "="}
  IN  IF I = {} THEN cd
      ELSE LET i == CHOOSE x \in I : \A y \in I : x <= y
           IN  IF At(cd, i + 1) = "=" THEN cd ELSE DropSpace(Suffix(cd, i + 1))

\* C6 (as claimed): in SYSCALL style the description is the code stripped up
\* to its first top-level '=' that is not part of "==", then ": ", the error
\* text and the arguments.
C6_StripTopLevelAssign ==
  (Described /\ style = SYSCALL)
  => result = StripTopLevel(code) \o <<":", " ">> \o strerror_r(errorNumber)
              \o JoinedFrom(1, FALSE)

\* C6 (amended): in SYSCALL style the description is the code stripped up to
\* and including its first '=' at any nesting depth, provided that '=' is not
\* directly followed by '=', with the whitespace after it trimmed, and the
\* unchanged code otherwise; then ": ", the error text and the arguments.
\* n = read(fd, buf, len) yields a description starting with
\* read(fd, buf, len): .
C6_StripFirstAssign ==
  /\ (Described /\ style = SYSCALL)
       => result = StripFirstEq(code) \o <<":", " ">> \o strerror_r(errorNumber)
                   \o JoinedFrom(1, FALSE)
  /\ (Described /\ style = SYSCALL /\ code = CodeRead)
       => StartsWith(result, TextReadHead)

\* the failed call n = read(fd, buf, len) has been described
C6_Witness ==
  /\ Described
  /\ style = SYSCALL
  /\ code = CodeRead
  /\ errorNumber = EBADF
  /\ StartsWith(result, TextReadHead \o strerror_r(EBADF))

----------------------------------------------------------------------------
(* C7 *)

\* C7: ASSERTION style with a null code returns the string LOG style returns
\* for the same text and values: no head and no separator before the first
\* argument; the text x with value 5 gives x = 5.
C7_NullCodeDegradesToLog ==
  /\ (Described /\ style = ASSERTION /\ code = nullptr)
       => /\ result = makeDescription(LOG, nullptr, 0, macroArgs, argValues).result
          /\ result = JoinedFrom(1, TRUE)
  /\ (Described /\ style = ASSERTION /\ code = nullptr /\ macroArgs = ExX
        /\ argValues = << <<"5">> >>)
       => result = TextX5

\* an assertion without code over x = 5 has been described
C7_Witness ==
  /\ Described
  /\ style = ASSERTION
  /\ code = nullptr
  /\ macroArgs = ExX
  /\ argValues = << <<"5">> >>
  /\ result = TextX5

----------------------------------------------------------------------------
(* C8 *)

\* the part of the description written for argument i: its separator, its
\* name part when a segment was parsed for position i, its value
RECURSIVE PositionalFrom(_)
PositionalFrom(i) ==
  IF i > Len(argValues) THEN <<>>
  ELSE FillDelim(EffStyle, i - 1)
       \o (IF i <= scan.index THEN RenderedArg(i) ELSE argValues[i])
       \o PositionalFrom(i + 1)

\* C8: with N >= 1 values and any number of parsed segments the call returns
\* a description holding all N values in order; positions without a parsed
\* segment have an empty name and show the value alone; segments beyond N
\* are dropped and the names array keeps exactly its N slots, which hold the
\* first N parsed segments.
C8_MismatchTolerated ==
  (Described /\ Len(argValues) >= 1)
  => /\ DOMAIN scan.argNames = 1..Len(argValues)
     /\ \A i \in 1..Len(argValues) :
          /\ i > scan.index => scan.argNames[i] = EmptyPtr
          /\ i <= scan.index
               => scan.argNames[i] = Tokenize(macroArgs, scan.index).argNames[i]
     /\ result = FillHead(EffStyle, CodeArray(EffStyle, CodeAfterStrip(style, code)),
                          SysErrorArray(EffStyle, errorNumber))
                 \o PositionalFrom(1)

\* a text with one segment has been described for 2 values
C8_Witness ==
  /\ Described
  /\ style = LOG
  /\ macroArgs = ExX
  /\ argValues = ValuesN(2)
  /\ scan.index = 1
  /\ result = <<"x", " ", "=", " ", "1", ";", " ", "2">>

----------------------------------------------------------------------------
(* Reference notions used to state the properties of Fault *)

\* positions of cs at which the chain head received fault f through method m
\* (an exception reaches the head before any Context has annotated it)
HeadCalls(cs, m, f) ==
  {k \in 1..Len(cs) :
     cs[k].method = m /\ cs[k].arg.id = f /\ cs[k].arg.context = <<>>}

Recoverables(cs, f) == Cardinality(HeadCalls(cs, "onRecoverableException", f))
Fatals(cs, f) == Cardinality(HeadCalls(cs, "onFatalException", f))

\* cs2 is cs1 followed by a delivery of e to the callback hd through m
DeliveredNext(cs1, cs2, hd, m, e) ==
  /\ Len(cs2) > Len(cs1)
  /\ SubSeq(cs2, 1, Len(cs1)) = cs1
  /\ cs2[Len(cs1) + 1] = [callee |-> hd, method |-> m, arg |-> e]

----------------------------------------------------------------------------
(* C9 *)

\* C9: the destruction of a Fault handle that holds its exception delivers
\* that exception to the active chain head through onRecoverableException,
\* once; the destruction of a handle whose exception was moved out makes no
\* call; no fault is ever reported more than once.
C9_ReportOnceOnDestruction ==
  /\ [][\A f \in Faults :
          (fault[f] # "destroyed" /\ fault'[f] = "destroyed")
          => IF exception[f] # NoException
             THEN /\ DeliveredNext(calls, calls', head, "onRecoverableException",
                                   exception[f][1])
                  /\ Recoverables(calls', f) = Recoverables(calls, f) + 1
             ELSE calls' = calls]_vars
  /\ [](\A f \in Faults : Recoverables(calls, f) + Fatals(calls, f) <= 1)

\* a handle was destroyed while holding its exception, which was reported
C9_Witness ==
  /\ fault[1] = "destroyed"
  /\ exception[1] # NoException
  /\ Recoverables(calls, 1) = 1

----------------------------------------------------------------------------
(* C10 *)

\* C10: a fault reaches the chain head through onFatalException at most
\* once, from a handle that holds it and that is emptied by the same call;
\* the call ends in abort() or leaves by the callback's exception, never by
\* a return to its caller; nothing runs after abort(); a fault reported as
\* fatal is never reported as recoverable.
C10_FatalOnceNoReturn ==
  /\ [][\A f \in Faults :
          Fatals(calls', f) > Fatals(calls, f)
          => /\ Fatals(calls', f) = 1
             /\ exception[f] # NoException
             /\ DeliveredNext(calls, calls', head, "onFatalException", exception[f][1])
             /\ exception'[f] = NoException
             /\ (proc' = "aborted" \/ fault'[f] = "unwinding")]_vars
  /\ [][proc = "running"]_vars
  /\ [](\A f \in Faults :
          /\ fault[f] # "returned"
          /\ Fatals(calls, f) = 1
               => /\ Recoverables(calls, f) = 0
                  /\ (proc = "aborted" \/ fault[f] \in {"unwinding", "destroyed"}))

\* fatal() left by the callback's exception and the handle was destroyed
\* afterwards without a second report
C10_Witness ==
  /\ fault[1] = "destroyed"
  /\ Fatals(calls, 1) = 1
  /\ Recoverables(calls, 1) = 0

----------------------------------------------------------------------------
(* Reference notions used to state the properties of the Context chain *)

Live == {c \in Contexts : context[c] = "live"}

\* the largest element of a non-empty set of numbers
Max(S) == CHOOSE x \in S : \A y \in S : y <= x

\* the innermost surviving Context of a set (Contexts are numbered in the
\* order of their construction), the root callback when the set is empty
Innermost(S) == IF S = {} THEN ROOT ELSE Max(S)

\* the surviving Contexts of S from the innermost to the outermost, then the
\* root callback
RECURSIVE InnerToOuter(_)
InnerToOuter(S) ==
  IF S = {} THEN <<ROOT>> ELSE <<Max(S)>> \o InnerToOuter(S \ {Max(S)})

\* the invocations added to calls by the step
NewCalls == SubSeq(calls', Len(calls) + 1, Len(calls'))

\* the callbacks invoked in cs, in order
Callees(cs) == [k \in 1..Len(cs) |-> cs[k].callee]

\* n copies of sequence x
RECURSIVE Repeat(_, _)
Repeat(x, n) == IF n = 0 THEN <<>> ELSE x \o Repeat(x, n - 1)

----------------------------------------------------------------------------
(* C11 *)

\* C11: a constructed Context has the head active at its construction as
\* successor and is the new head; its destruction restores that head; hence
\* the head is always the innermost surviving Context (the root when none
\* survives), every surviving Context's successor is the next surviving one
\* outwards, and the messages of a logInternal call each visit exactly the
\* surviving Contexts from the innermost outwards and then the root.
C11_StackDiscipline ==
  /\ [][\A c \in Contexts :
          /\ (context[c] = "unborn" /\ context'[c] = "live")
               => (next'[c] = head /\ head' = c)
          /\ (context[c] = "live" /\ context'[c] = "dead")
               => (head = c /\ head' = next[c])]_vars
  /\ [](/\ head = Innermost(Live)
        /\ \A c \in Live : next[c] = Innermost({b \in Live : b < c}))
  /\ [][Len(calls') > Len(calls)
          => /\ Len(NewCalls) % (Cardinality(Live) + 1) = 0
             /\ Callees(NewCalls)
                  = Repeat(InnerToOuter(Live),
                           Len(NewCalls) \div (Cardinality(Live) + 1))]_vars

\* three nested Contexts were left one after the other, with one log line
\* after each exit: the lines visited 2, 1 and 0 Contexts
C11_Witness ==
  /\ \A c \in 1..3 : context[c] = "dead"
  /\ Callees(calls) = <<2, 1, ROOT, 1, ROOT, ROOT>>

----------------------------------------------------------------------------
(* C12 *)

\* the step hands an exception held by a Fault handle to the chain head
ExceptionDelivered ==
  /\ Len(calls') > Len(calls)
  /\ NewCalls[1].method # "logMessage"
  /\ NewCalls[1].arg.id \in Faults

\* C12: when an exception held by a handle is delivered with k surviving
\* Contexts, the Contexts receive it from the innermost to the outermost and
\* the root callback receives it last, each callback once; every callback
\* receives it through the method the head received it through, which is
\* onRecoverableException for a destroyed handle and onFatalException for
\* fatal(); what a callback receives is the handle's exception with the
\* annotations of exactly the Contexts before it, in that order, so the root
\* receives it with k annotations.
C12_AnnotatedAlongChain ==
  [][ExceptionDelivered
       => LET k == Cardinality(Live)
              chain == InnerToOuter(Live)
              e == NewCalls[1].arg
          IN  /\ exception[e.id] = <<e>>
              /\ e.context = <<>>
              /\ Len(NewCalls) = k + 1
              /\ Callees(NewCalls) = chain
              /\ NewCalls[1].method
                   = (IF fault'[e.id] = "destroyed" THEN "onRecoverableException"
                      ELSE "onFatalException")
              /\ \A j \in 1..(k + 1) :
                   /\ NewCalls[j].method = NewCalls[1].method
                   /\ NewCalls[j].arg
                        = [e EXCEPT !.context = SubSeq(chain, 1, j - 1)]
              /\ Len(NewCalls[k + 1].arg.context) = k]_vars

\* the root callback received an exception annotated by three Contexts
C12_Witness ==
  \E k \in 1..Len(calls) :
    /\ calls[k].callee = ROOT
    /\ calls[k].method # "logMessage"
    /\ calls[k].arg.context = <<3, 2, 1>>

----------------------------------------------------------------------------
(* C13 *)

\* C13: every log text handed to the chain head is passed on by each
\* Context as it is and reaches the root callback once, unchanged, whatever
\* the number of surviving Contexts.
C13_LogPassThrough ==
  [][Len(calls') > Len(calls)
       => LET k == Cardinality(Live) + 1
          IN  /\ Len(NewCalls) % k = 0
              /\ \A j \in 1..Len(NewCalls) :
                   /\ NewCalls[j].method = "logMessage"
                   /\ NewCalls[j].arg = NewCalls[((j - 1) \div k) * k + 1].arg
                   /\ (NewCalls[j].callee = ROOT) <=> (j % k = 0)]_vars

\* a log line went through three Contexts and reached the root
C13_Witness ==
  /\ Cardinality(Live) = 3
  /\ Len(calls) >= 4
  /\ Callees(SubSeq(calls, Len(calls) - 3, Len(calls))) = <<3, 2, 1, ROOT>>
  /\ calls[Len(calls)].arg = calls[Len(calls) - 3].arg
  /\ calls[Len(calls)].arg.kind = "line"

----------------------------------------------------------------------------
(* C14 *)

\* the invocations the scan of the running call makes: the parse-mismatch
\* diagnostic to the chain head when there are values and the text does not
\* have as many segments, nothing otherwise
ExpectedDiag ==
  IF Len(argValues) >= 1 /\ RefSegments(macroArgs) # Len(argValues)
  THEN Dispatch(next, head, "logMessage", ParseDiag(macroArgs, Len(argValues)))
  ELSE <<>>

\* C14: makeDescription called with N >= 1 values counts one segment more
\* than the text has top-level commas; it hands the parse-mismatch
\* diagnostic to logMessage of the chain head once when that count differs
\* from N, and makes no call when the counts are equal or when N = 0.
C14_DiagnosticOnMismatch ==
  Described
  => /\ Len(argValues) >= 1 => scan.index = RefSegments(macroArgs)
     /\ calls = ExpectedDiag
     /\ Len(calls) = (IF Len(argValues) >= 1 /\ scan.index # Len(argValues)
                      THEN 1 ELSE 0)

\* a text with one segment was described for 2 values: one diagnostic
C14_Witness ==
  /\ Described
  /\ macroArgs = ExX
  /\ Len(argValues) = 2
  /\ calls = <<[callee |-> ROOT, method |-> "logMessage",
                arg |-> ParseDiag(ExX, 2)]>>

----------------------------------------------------------------------------
(* C15 *)

\* C15 (as claimed): fatal() on a handle that no longer holds its exception
\* is rejected: the null pointer is not dereferenced, so the process does
\* not crash, and no callback receives a value that no handle held.
C15_EmptyFatalRejected ==
  /\ proc # "crashed"
  /\ \A k \in 1..Len(calls) :
       calls[k].method # "logMessage" => calls[k].arg.id \in Faults

----------------------------------------------------------------------------
(* C16 *)

\* C16: getOsErrorNumber returns -1 exactly when errno is EINTR and returns
\* errno otherwise; hence it returns 0 exactly when errno is 0, and -1 is
\* neither 0 nor an error number the call returns for another errno.
C16_InterruptedSentinel ==
  pc = "done"
  => /\ errno = EINTR => errorNumber = -1
     /\ errno # EINTR => errorNumber = errno
     /\ (errorNumber = -1) <=> (errno = EINTR)
     /\ (errorNumber = 0) <=> (errno = 0)
     /\ errorNumber >= 0 => errorNumber = errno

\* the call was made with errno = EINTR
C16_Witness ==
  /\ pc = "done"
  /\ errno = EINTR
  /\ errorNumber = -1

----------------------------------------------------------------------------
(* C17 *)

\* C17: the length computed by the sizing pass is the number of characters
\* the fill pass writes, for every style, names array and value list.
C17_SizeEqualsFill == Described => totalSize = Len(result)

\* a SYSCALL description with two named values was sized and filled
C17_Witness ==
  /\ Described
  /\ style = SYSCALL
  /\ Len(argValues) = 2
  /\ scan.index = 2
  /\ HasName(macroArgs, scan.argNames[1])
  /\ totalSize = Len(result)
  /\ totalSize > Len(CodeAfterStrip(style, code))

----------------------------------------------------------------------------
(* C18 *)

\* index of the terminator of the text being scanned
Terminator == Len(macroArgs) + 1

\* C18: every iteration of the scan loop moves the cursor forward, and the
\* character it reads is never beyond the terminator, so the loop ends
\* within Len + 1 iterations: it ends by reading the terminator, which
\* leaves the cursor one past it, where nothing is read; every recorded
\* span [b, e) has 1 <= b <= e <= the terminator's index.
C18_ScanStaysInText ==
  /\ []((pc = "scan" /\ scan.looping) => scan.pos \in 1..Terminator)
  /\ []((pc = "scan" /\ ~scan.looping) => scan.pos = Terminator + 1)
  /\ [][(pc = "scan" /\ scan.looping)
          => /\ scan'.pos > scan.pos
             /\ scan'.pos <= Terminator + 1
             /\ scan'.looping <=> Cur # NUL]_vars
  /\ []((pc = "scan" \/ Scanned)
          => \A i \in DOMAIN scan.argNames :
               i <= scan.index
               => /\ 1 <= scan.argNames[i].b
                  /\ scan.argNames[i].b <= scan.argNames[i].e
                  /\ scan.argNames[i].e <= Terminator)

\* an unterminated quoted string ending in a backslash was scanned to its
\* end and recorded as one span
C18_Witness ==
  /\ Scanned
  /\ macroArgs = <<Q, "a", BS>>
  /\ Len(argValues) = 1
  /\ scan.pos = Terminator + 1
  /\ scan.quoted
  /\ scan.argNames = <<arrayPtr(1, 4)>>

----------------------------------------------------------------------------
(* C19 *)

\* C19: a call of logInternal that has returned has delivered one log line,
\* made of the severity's name and the description, to the chain head, as
\* its last invocation; the parse-mismatch diagnostic, when the text does
\* not have as many segments as there are values, was delivered to the same
\* callback before the line; no line is delivered before the call's end.
C19_OneLineAfterDiag ==
  /\ [](pc = "done"
          => \E severity \in Severity :
               calls = ExpectedDiag
                       \o <<[callee |-> head, method |-> "logMessage",
                             arg |-> [kind |-> "line",
                                      severity |-> SEVERITY_STRINGS[severity + 1],
                                      text |-> result]]>>)
  /\ [](pc # "done" => \A k \in 1..Len(calls) : calls[k].arg.kind # "line")

\* a call whose text did not parse into 2 names delivered the diagnostic,
\* then the line
C19_Witness ==
  /\ pc = "done"
  /\ Len(argValues) = 2
  /\ scan.index # 2
  /\ Len(calls) = 2
  /\ calls[1].arg.kind = "diag"
  /\ calls[2].arg.kind = "line"
  /\ calls[2].arg.text = result

====
